---- MODULE Spec2Model ----
(***************************************************************************)
(* Memory pool simulator (src/main.py): FixedBlockSizeMemoryPool and       *)
(* VariableBlockSizeMemoryPool, modelled as two independent state          *)
(* machines.  Every public method is one action; the arguments and the     *)
(* outcome of the latest call are kept in f_call / f_ret and v_call /      *)
(* v_ret so that properties of a call can be stated over one step.         *)
(*                                                                         *)
(* Python lists are 0-based, TLA+ sequences 1-based: the block with id x   *)
(* is block_table[x + 1].  The Python value None is the string "None".     *)
(***************************************************************************)
EXTENDS Integers, Sequences, FiniteSets

\* ------------------------------------------------------------------ bounds
MaxPoolSize == 4        \* FixedPool: total sizes 1..MaxPoolSize
MaxBlockSize == 2       \* FixedPool: block sizes 1..MaxBlockSize
MaxVarSize == 4         \* VariablePool: total size
MaxIds == 3             \* VariablePool: number of uuid4 values drawn in a run

Owners == {"A", "B"}
None == "None"

\* ------------------------------------------------------------------ state
VARIABLES
    f_size,                     \* FixedPool.size
    f_block_size,               \* FixedPool.block_size
    f_total_no_of_blocks,       \* FixedPool.total_no_of_blocks
    f_remaining_no_of_blocks,   \* FixedPool.remaining_no_of_blocks
    f_block_table,              \* FixedPool.block_table
    f_call,                     \* the latest FixedPool call and its arguments
    f_ret,                      \* its outcome: exception raised, value returned
    f_pre,                      \* block_table and counter when that call began
    f_rt,                       \* a caller's allocate and the frees of its blocks
    v_size,                     \* VariablePool.size
    v_block_sizes,              \* VariablePool.block_sizes (the size menu)
    v_remaining_size,           \* VariablePool.remaining_size
    v_block_table,              \* VariablePool.block_table (the chunks)
    v_next_id,                  \* number of uuid4 values drawn so far
    v_call,                     \* the latest VariablePool call and its arguments
    v_ret,                      \* its outcome
    v_pre,                      \* block_table and remaining_size when it began
    v_rt,                       \* a caller's allocate and the frees of its chunks
    v_issued                    \* every chunk id issued so far, in order

f_vars == <<f_size, f_block_size, f_total_no_of_blocks,
            f_remaining_no_of_blocks, f_block_table, f_call, f_ret,
            f_pre, f_rt>>
v_vars == <<v_size, v_block_sizes, v_remaining_size, v_block_table,
            v_next_id, v_call, v_ret, v_pre, v_rt, v_issued>>
vars == <<f_vars, v_vars>>

\* ------------------------------------------------------------------ helpers
\* int(a / b) for b > 0: Python's true division followed by truncation
\* toward zero.
IntDiv(a, b) == IF a >= 0 THEN a \div b ELSE -((-a) \div b)

\* ------------------------------------------------------------------ callers
\* A caller that allocates and then frees, one by one and under the same
\* owner, what that allocate gave it (as main() does with results[0]).  The
\* record holds the pool as it was before the allocate, what the allocate
\* claimed and what is still to be freed; any other call ends it.
RtIdle ==
    [active |-> FALSE, tbl |-> <<>>, remaining |-> 0, owner |-> None,
     claimed |-> {}, pending |-> {}]

RtBegin(pre_tbl, pre_remaining, owner, ids) ==
    [active |-> TRUE, tbl |-> pre_tbl, remaining |-> pre_remaining,
     owner |-> owner, claimed |-> ids, pending |-> ids]

RtFree(rt, id, owner) ==
    IF rt.active /\ owner = rt.owner /\ id \in rt.pending
    THEN [rt EXCEPT !.pending = @ \ {id}]
    ELSE RtIdle

\* The ids of the blocks that differ between two tables of equal length.
ChangedIds(pre_tbl, post_tbl) ==
    {post_tbl[i].id : i \in {j \in 1..Len(post_tbl) : post_tbl[j] # pre_tbl[j]}}

\* The ids of a sequence of chunks, in order and as a set.
IdsOf(chunks) == [i \in 1..Len(chunks) |-> chunks[i].id]
IdSet(chunks) == {chunks[i].id : i \in 1..Len(chunks)}

\* ------------------------------------------------------------------ FixedPool
\* __init__: the block table of a new pool.
NewBlockTable(no_of_blocks) ==
    [x \in 1..no_of_blocks |-> [allocated |-> FALSE, id |-> x - 1, owner |-> None]]

FixedInit ==
    /\ f_size \in 1..MaxPoolSize
    /\ f_block_size \in 1..MaxBlockSize
    /\ f_total_no_of_blocks = IntDiv(f_size, f_block_size)
    /\ f_remaining_no_of_blocks = IntDiv(f_size, f_block_size)
    /\ f_block_table = NewBlockTable(IntDiv(f_size, f_block_size))
    /\ f_call = [op |-> "init", size |-> 0, owner |-> None, block_id |-> 0]
    /\ f_ret = [exc |-> "none", value |-> TRUE]
    /\ f_pre = [tbl |-> f_block_table, remaining |-> f_remaining_no_of_blocks]
    /\ f_rt = RtIdle

\* Variant: allocate without the break of lines 98-99.
AllocStopNever(so_far, num_of_blocks) == FALSE

\* The loop of allocate (lines 91-99) from table position i on: a free block
\* is claimed, and after every block, claimed or not, the loop stops when the
\* count so far equals num_of_blocks.
AllocStop(so_far, num_of_blocks) == so_far = num_of_blocks

\* Variant: allocate claims blocks whether or not they are free.
BlockIsFreeAlways(block) == TRUE

\* allocate: the test of line 93.
BlockIsFree(block) == block.allocated = FALSE

RECURSIVE AllocScan(_, _, _, _, _)
AllocScan(tbl, i, so_far, num_of_blocks, owner) ==
    IF i > Len(tbl) THEN [tbl |-> tbl, claimed |-> so_far]
    ELSE LET hit == BlockIsFree(tbl[i])
             t1  == IF hit
                    THEN [tbl EXCEPT ![i].allocated = TRUE, ![i].owner = owner]
                    ELSE tbl
             c1  == IF hit THEN so_far + 1 ELSE so_far
         IN  IF AllocStop(c1, num_of_blocks)
             THEN [tbl |-> t1, claimed |-> c1]
             ELSE AllocScan(t1, i + 1, c1, num_of_blocks, owner)

\* Variant: allocate without the test of line 86.
AllocRejectsNoEmptyTest(size, total_size, block_size, remaining) ==
    \/ size > total_size
    \/ remaining < IntDiv(size, block_size)

\* The rejections of allocate (lines 81-89).
AllocRejects(size, total_size, block_size, remaining) ==
    \/ size > total_size
    \/ remaining = 0
    \/ remaining < IntDiv(size, block_size)

\* Variant: the counter drops by one per call, not one per block claimed.
AllocCounterOnce(remaining, claimed) ==
    IF claimed > 0 THEN remaining - 1 ELSE remaining

\* allocate: the counter after the updates of line 97.
AllocCounter(remaining, claimed) == remaining - claimed

\* allocate(size, owner): the new table, the new counter, the value returned.
FixedAllocateResult(tbl, remaining, total_size, block_size, size, owner) ==
    IF AllocRejects(size, total_size, block_size, remaining)
    THEN [tbl |-> tbl, remaining |-> remaining, exc |-> "none", value |-> FALSE]
    ELSE LET r == AllocScan(tbl, 1, 0, IntDiv(size, block_size), owner)
         IN  [tbl |-> r.tbl, remaining |-> AllocCounter(remaining, r.claimed),
              exc |-> "none", value |-> TRUE]

\* free: the range check of line 134.
FreeOutOfRange(block_id, total) == block_id > total - 1

\* Variant: free without the ownership check.
FreeOwnerIgnored(recorded, owner) == FALSE

\* free: the ownership check of line 138.
FreeOwnerMismatch(recorded, owner) == recorded # owner

\* Variant: free forgets the counter.
FreeCounterStale(remaining) == remaining

\* free: the counter update of line 144.
FreeCounter(remaining) == remaining + 1

\* Variant: free leaves the recorded owner on the block it clears.
FreedOwnerKept(recorded) == recorded

\* free: the owner field written to the block it clears.
FreedOwner(recorded) == None

\* free(block_id, owner).  A negative block_id passes the check of line 134
\* and indexes the list from its end; below -len(block_table) the subscript
\* raises IndexError.
FixedFreeResult(tbl, remaining, total, block_id, owner) ==
    LET same(e, v) == [tbl |-> tbl, remaining |-> remaining, exc |-> e, value |-> v]
    IN  IF FreeOutOfRange(block_id, total) THEN same("none", FALSE)
        ELSE IF block_id < -Len(tbl) THEN same("IndexError", FALSE)
        ELSE LET i == IF block_id >= 0 THEN block_id + 1
                      ELSE Len(tbl) + block_id + 1
             IN  IF tbl[i].allocated = FALSE THEN same("none", FALSE)
                 ELSE IF FreeOwnerMismatch(tbl[i].owner, owner)
                      THEN same("none", FALSE)
                 ELSE [tbl |-> [tbl EXCEPT ![i].allocated = FALSE,
                                           ![i].owner = FreedOwner(tbl[i].owner)],
                       remaining |-> FreeCounter(remaining),
                       exc |-> "none", value |-> TRUE]

\* Variant: free_all hands every allocated block to free.
FreeAllSelectsAllocated(block, owner) == block.allocated

\* free_all: which blocks the loop of lines 115-118 hands to free.
FreeAllSelects(block, owner) == block.owner = owner

\* The loop of free_all from table position i on.
RECURSIVE FreeAllScan(_, _, _, _, _, _)
FreeAllScan(tbl, remaining, total, i, fails, owner) ==
    IF i > Len(tbl)
    THEN [tbl |-> tbl, remaining |-> remaining, exc |-> "none",
          value |-> (fails = 0)]
    ELSE IF FreeAllSelects(tbl[i], owner)
         THEN LET r == FixedFreeResult(tbl, remaining, total, tbl[i].id, owner)
              IN  FreeAllScan(r.tbl, r.remaining, total, i + 1,
                              IF r.value THEN fails ELSE fails + 1, owner)
         ELSE FreeAllScan(tbl, remaining, total, i + 1, fails, owner)

FixedFreeAllResult(tbl, remaining, total, owner) ==
    FreeAllScan(tbl, remaining, total, 1, 0, owner)

\* Arguments the model passes.
FixedReqSizes == -1..(MaxPoolSize + 1)
FixedBlockIds == -(MaxPoolSize + 1)..MaxPoolSize

FixedAllocate ==
    \E size \in FixedReqSizes, owner \in Owners :
        LET r == FixedAllocateResult(f_block_table, f_remaining_no_of_blocks,
                                     f_size, f_block_size, size, owner)
        IN  /\ f_block_table' = r.tbl
            /\ f_remaining_no_of_blocks' = r.remaining
            /\ f_ret' = [exc |-> r.exc, value |-> r.value]
            /\ f_pre' = [tbl |-> f_block_table,
                         remaining |-> f_remaining_no_of_blocks]
            /\ f_call' = [op |-> "allocate", size |-> size, owner |-> owner,
                          block_id |-> 0]
            /\ f_rt' = IF r.value
                       THEN RtBegin(f_block_table, f_remaining_no_of_blocks,
                                    owner, ChangedIds(f_block_table, r.tbl))
                       ELSE RtIdle
            /\ UNCHANGED <<f_size, f_block_size, f_total_no_of_blocks, v_vars>>

FixedFree ==
    \E block_id \in FixedBlockIds, owner \in Owners :
        LET r == FixedFreeResult(f_block_table, f_remaining_no_of_blocks,
                                 f_total_no_of_blocks, block_id, owner)
        IN  /\ f_block_table' = r.tbl
            /\ f_remaining_no_of_blocks' = r.remaining
            /\ f_ret' = [exc |-> r.exc, value |-> r.value]
            /\ f_pre' = [tbl |-> f_block_table,
                         remaining |-> f_remaining_no_of_blocks]
            /\ f_call' = [op |-> "free", size |-> 0, owner |-> owner,
                          block_id |-> block_id]
            /\ f_rt' = RtFree(f_rt, block_id, owner)
            /\ UNCHANGED <<f_size, f_block_size, f_total_no_of_blocks, v_vars>>

FixedFreeAll ==
    \E owner \in Owners :
        LET r == FixedFreeAllResult(f_block_table, f_remaining_no_of_blocks,
                                    f_total_no_of_blocks, owner)
        IN  /\ f_block_table' = r.tbl
            /\ f_remaining_no_of_blocks' = r.remaining
            /\ f_ret' = [exc |-> r.exc, value |-> r.value]
            /\ f_pre' = [tbl |-> f_block_table,
                         remaining |-> f_remaining_no_of_blocks]
            /\ f_call' = [op |-> "free_all", size |-> 0, owner |-> owner,
                          block_id |-> 0]
            /\ f_rt' = RtIdle
            /\ UNCHANGED <<f_size, f_block_size, f_total_no_of_blocks, v_vars>>

FixedNext == FixedAllocate \/ FixedFree \/ FixedFreeAll

\* ------------------------------------------------------------------ VariablePool
\* The size menus a pool is built with: stored verbatim, in any order.
VarMenus == {<<2, 1>>, <<1, 2>>, <<4, 2>>, <<2, 3>>}

VarInit ==
    /\ v_size = MaxVarSize
    /\ v_block_sizes \in VarMenus
    /\ v_remaining_size = v_size
    /\ v_block_table = <<>>
    /\ v_next_id = 0
    /\ v_call = [op |-> "init", size |-> 0, owner |-> None, block_size |-> 0,
                 block_id |-> 0]
    /\ v_ret = [exc |-> "none", kind |-> "bool", value |-> TRUE, chunks |-> <<>>]
    /\ v_pre = [tbl |-> v_block_table, remaining |-> v_remaining_size]
    /\ v_rt = RtIdle
    /\ v_issued = <<>>

InMenu(block_size, menu) == \E k \in 1..Len(menu) : menu[k] = block_size

\* Variant: allocate_single_block_size without the test of line 291.
SingleRejectsNoMenuTest(size, total_size, block_size, menu, remaining) ==
    \/ size > total_size
    \/ remaining = 0
    \/ remaining < size

\* Variant: allocate_single_block_size without the test of line 296.
SingleRejectsNoCapacityTest(size, total_size, block_size, menu, remaining) ==
    \/ size > total_size
    \/ ~InMenu(block_size, menu)
    \/ remaining = 0

\* The rejections of allocate_single_block_size (lines 288-297).
SingleRejects(size, total_size, block_size, menu, remaining) ==
    \/ size > total_size
    \/ ~InMenu(block_size, menu)
    \/ remaining = 0
    \/ remaining < size

\* uuid.uuid4(): the n-th value drawn in a run, distinct from all before it.
Uuid(n) == n

\* Variant: one uuid4 value is drawn per call and used for all its chunks.
NewChunksOneId(num_of_blocks, next_id, block_size, owner) ==
    [x \in 1..num_of_blocks |->
        [id |-> Uuid(next_id + 1), size |-> block_size, owner |-> owner,
         allocated |-> TRUE]]

\* The chunks the loop of lines 303-311 creates.
NewChunks(num_of_blocks, next_id, block_size, owner) ==
    [x \in 1..num_of_blocks |->
        [id |-> Uuid(next_id + x), size |-> block_size, owner |-> owner,
         allocated |-> TRUE]]

\* Variant: remaining_size is charged once per call, not once per chunk.
SingleCostOnce(num_of_blocks, block_size) ==
    IF num_of_blocks > 0 THEN block_size ELSE 0

\* What allocate_single_block_size takes from remaining_size.
SingleCost(num_of_blocks, block_size) ==
    IF num_of_blocks > 0 THEN num_of_blocks * block_size ELSE 0

\* allocate_single_block_size(size, owner, block_size) on pool state
\* (tbl, remaining, next_id): ok = FALSE is the return value False.
SingleResult(tbl, remaining, next_id, total_size, menu, size, owner, block_size) ==
    IF SingleRejects(size, total_size, block_size, menu, remaining)
    THEN [tbl |-> tbl, remaining |-> remaining, next_id |-> next_id,
          ok |-> FALSE, chunks |-> <<>>]
    ELSE LET n  == IntDiv(size, block_size)
             cs == NewChunks(n, next_id, block_size, owner)
         IN  [tbl |-> tbl \o cs,
              remaining |-> remaining - SingleCost(n, block_size),
              next_id |-> next_id + Len(cs), ok |-> TRUE, chunks |-> cs]

\* allocate: the size requested from allocate_single_block_size for one menu
\* entry (lines 330-333).
Allocatable(size, block_size, menu) ==
    IF size < menu[Len(menu)] THEN menu[Len(menu)]
    ELSE IntDiv(size, block_size) * block_size

\* The loop of allocate (lines 325-337) from menu position k on.  When
\* allocate_single_block_size returns False, results.extend(False) raises
\* TypeError; the chunks of the earlier entries stay in the table.
RECURSIVE AllocateLoop(_, _, _, _, _, _, _, _, _)
AllocateLoop(tbl, remaining, next_id, total_size, menu, k, size, owner, results) ==
    IF k > Len(menu) \/ size = 0
    THEN [tbl |-> tbl, remaining |-> remaining, next_id |-> next_id,
          exc |-> "none", chunks |-> results]
    ELSE LET a == Allocatable(size, menu[k], menu)
             r == SingleResult(tbl, remaining, next_id, total_size, menu,
                               a, owner, menu[k])
         IN  IF ~r.ok
             THEN [tbl |-> tbl, remaining |-> remaining, next_id |-> next_id,
                   exc |-> "TypeError", chunks |-> <<>>]
             ELSE AllocateLoop(r.tbl, r.remaining, r.next_id, total_size, menu,
                               k + 1, size - a, owner, results \o r.chunks)

\* Variant: the result of sorted(..., reverse=True) is the list walked.
RECURSIVE InsertDesc(_, _)
InsertDesc(x, sorted_menu) ==
    IF sorted_menu = <<>> THEN <<x>>
    ELSE IF x >= Head(sorted_menu) THEN <<x>> \o sorted_menu
    ELSE <<Head(sorted_menu)>> \o InsertDesc(x, Tail(sorted_menu))

RECURSIVE SortedDesc(_)
SortedDesc(menu) ==
    IF menu = <<>> THEN <<>> ELSE InsertDesc(Head(menu), SortedDesc(Tail(menu)))

VarAllocateSorted(tbl, remaining, next_id, total_size, menu, size, owner) ==
    AllocateLoop(tbl, remaining, next_id, total_size, SortedDesc(menu), 1,
                 size, owner, <<>>)

\* allocate(size, owner).  sorted(self.block_sizes, reverse=True) on line 323
\* returns a new list that is dropped: the menu is walked in stored order.
VarAllocateResult(tbl, remaining, next_id, total_size, menu, size, owner) ==
    AllocateLoop(tbl, remaining, next_id, total_size, menu, 1, size, owner, <<>>)

\* Variant: free matches on the id alone.
FreeMatchesIdOnly(block, block_id, owner) == block.id = block_id

\* free: the test of line 378.
FreeMatches(block, block_id, owner) ==
    block.id = block_id /\ block.owner = owner

\* Variant: free deletes the last chunk of the table, not the matching one.
RemoveLast(tbl, i) == SubSeq(tbl, 1, Len(tbl) - 1)

\* free: del self.block_table[i] of line 380.
RemoveAt(tbl, i) == SubSeq(tbl, 1, i - 1) \o SubSeq(tbl, i + 1, Len(tbl))

\* free(block_id, owner): the first matching chunk is deleted.
VarFreeResult(tbl, remaining, block_id, owner) ==
    LET hits == {i \in 1..Len(tbl) : FreeMatches(tbl[i], block_id, owner)}
    IN  IF hits = {}
        THEN [tbl |-> tbl, remaining |-> remaining, value |-> FALSE]
        ELSE LET i == CHOOSE j \in hits : \A h \in hits : j <= h
             IN  [tbl |-> RemoveAt(tbl, i),
                  remaining |-> remaining + tbl[i].size, value |-> TRUE]

\* Variant: free_all collects only the first chunk of the owner.
RECURSIVE BlocksToRemoveFirst(_, _)
BlocksToRemoveFirst(tbl, owner) ==
    IF tbl = <<>> THEN <<>>
    ELSE IF Head(tbl).owner = owner THEN <<Head(tbl).id>>
         ELSE BlocksToRemoveFirst(Tail(tbl), owner)

\* free_all: the ids collected by the loop of lines 353-355, in table order.
RECURSIVE BlocksToRemove(_, _)
BlocksToRemove(tbl, owner) ==
    IF tbl = <<>> THEN <<>>
    ELSE (IF Head(tbl).owner = owner THEN <<Head(tbl).id>> ELSE <<>>)
         \o BlocksToRemove(Tail(tbl), owner)

\* free_all: the loop of lines 357-360 over the collected ids.
RECURSIVE VarFreeAllLoop(_, _, _, _, _)
VarFreeAllLoop(tbl, remaining, ids, fails, owner) ==
    IF ids = <<>>
    THEN [tbl |-> tbl, remaining |-> remaining, value |-> (fails = 0)]
    ELSE LET r == VarFreeResult(tbl, remaining, Head(ids), owner)
         IN  VarFreeAllLoop(r.tbl, r.remaining, Tail(ids),
                            IF r.value THEN fails ELSE fails + 1, owner)

VarFreeAllResult(tbl, remaining, owner) ==
    VarFreeAllLoop(tbl, remaining, BlocksToRemove(tbl, owner), 0, owner)

\* Arguments the model passes.
VarReqSizes == 0..(MaxVarSize + 1)
VarBlockSizeArgs == {1, 2, 4}
VarIdArgs == 1..(MaxIds + 1)

VarAllocate ==
    \E size \in VarReqSizes, owner \in Owners :
        LET r == VarAllocateResult(v_block_table, v_remaining_size, v_next_id,
                                   v_size, v_block_sizes, size, owner)
        IN  /\ r.next_id <= MaxIds
            /\ v_block_table' = r.tbl
            /\ v_remaining_size' = r.remaining
            /\ v_pre' = [tbl |-> v_block_table, remaining |-> v_remaining_size]
            /\ v_next_id' = r.next_id
            /\ v_ret' = [exc |-> r.exc, kind |-> "list",
                         value |-> (r.exc = "none"), chunks |-> r.chunks]
            /\ v_call' = [op |-> "allocate", size |-> size, owner |-> owner,
                          block_size |-> 0, block_id |-> 0]
            /\ v_rt' = IF r.exc = "none"
                       THEN RtBegin(v_block_table, v_remaining_size, owner,
                                    IdSet(r.chunks))
                       ELSE RtIdle
            /\ v_issued' = v_issued \o
                   IdsOf(SubSeq(r.tbl, Len(v_block_table) + 1, Len(r.tbl)))
            /\ UNCHANGED <<v_size, v_block_sizes, f_vars>>

VarAllocateSingle ==
    \E size \in VarReqSizes, owner \in Owners, block_size \in VarBlockSizeArgs :
        LET r == SingleResult(v_block_table, v_remaining_size, v_next_id,
                              v_size, v_block_sizes, size, owner, block_size)
        IN  /\ r.next_id <= MaxIds
            /\ v_block_table' = r.tbl
            /\ v_remaining_size' = r.remaining
            /\ v_pre' = [tbl |-> v_block_table, remaining |-> v_remaining_size]
            /\ v_next_id' = r.next_id
            /\ v_ret' = [exc |-> "none",
                         kind |-> IF r.ok THEN "list" ELSE "bool",
                         value |-> r.ok, chunks |-> r.chunks]
            /\ v_call' = [op |-> "allocate_single_block_size", size |-> size,
                          owner |-> owner, block_size |-> block_size,
                          block_id |-> 0]
            /\ v_rt' = RtIdle
            /\ v_issued' = v_issued \o
                   IdsOf(SubSeq(r.tbl, Len(v_block_table) + 1, Len(r.tbl)))
            /\ UNCHANGED <<v_size, v_block_sizes, f_vars>>

VarFree ==
    \E block_id \in VarIdArgs, owner \in Owners :
        LET r == VarFreeResult(v_block_table, v_remaining_size, block_id, owner)
        IN  /\ v_block_table' = r.tbl
            /\ v_remaining_size' = r.remaining
            /\ v_pre' = [tbl |-> v_block_table, remaining |-> v_remaining_size]
            /\ v_ret' = [exc |-> "none", kind |-> "bool", value |-> r.value,
                         chunks |-> <<>>]
            /\ v_call' = [op |-> "free", size |-> 0, owner |-> owner,
                          block_size |-> 0, block_id |-> block_id]
            /\ v_rt' = RtFree(v_rt, block_id, owner)
            /\ UNCHANGED <<v_size, v_block_sizes, v_next_id, v_issued, f_vars>>

VarFreeAll ==
    \E owner \in Owners :
        LET r == VarFreeAllResult(v_block_table, v_remaining_size, owner)
        IN  /\ v_block_table' = r.tbl
            /\ v_remaining_size' = r.remaining
            /\ v_pre' = [tbl |-> v_block_table, remaining |-> v_remaining_size]
            /\ v_ret' = [exc |-> "none", kind |-> "bool", value |-> r.value,
                         chunks |-> <<>>]
            /\ v_call' = [op |-> "free_all", size |-> 0, owner |-> owner,
                          block_size |-> 0, block_id |-> 0]
            /\ v_rt' = RtIdle
            /\ UNCHANGED <<v_size, v_block_sizes, v_next_id, v_issued, f_vars>>

VarNext == VarAllocate \/ VarAllocateSingle \/ VarFree \/ VarFreeAll

\* ------------------------------------------------------------------ specifications
\* The pool that stands by while the other one is driven: the pools of main().
FixedIdle ==
    /\ f_size = MaxPoolSize
    /\ f_block_size = 1
    /\ f_total_no_of_blocks = MaxPoolSize
    /\ f_remaining_no_of_blocks = MaxPoolSize
    /\ f_block_table = NewBlockTable(MaxPoolSize)
    /\ f_call = [op |-> "init", size |-> 0, owner |-> None, block_id |-> 0]
    /\ f_ret = [exc |-> "none", value |-> TRUE]
    /\ f_pre = [tbl |-> f_block_table, remaining |-> f_remaining_no_of_blocks]
    /\ f_rt = RtIdle

VarIdle ==
    /\ v_size = MaxVarSize
    /\ v_block_sizes = <<2, 1>>
    /\ v_remaining_size = MaxVarSize
    /\ v_block_table = <<>>
    /\ v_next_id = 0
    /\ v_call = [op |-> "init", size |-> 0, owner |-> None, block_size |-> 0,
                 block_id |-> 0]
    /\ v_ret = [exc |-> "none", kind |-> "bool", value |-> TRUE, chunks |-> <<>>]
    /\ v_pre = [tbl |-> v_block_table, remaining |-> v_remaining_size]
    /\ v_rt = RtIdle
    /\ v_issued = <<>>

\* The pools share no state: each is checked driven alone, from every
\* construction in its bounds.
FixedSpecInit == FixedInit /\ VarIdle
VarSpecInit == FixedIdle /\ VarInit

FixedSpec == FixedSpecInit /\ [][FixedNext]_vars
VarSpec == VarSpecInit /\ [][VarNext]_vars

\* ------------------------------------------------------------------ properties
AllocatedCount(tbl) == Cardinality({i \in 1..Len(tbl) : tbl[i].allocated})

FreedBlock(x) == [allocated |-> FALSE, id |-> x, owner |-> None]

RECURSIVE SumSizes(_)
SumSizes(tbl) ==
    IF tbl = <<>> THEN 0 ELSE Head(tbl).size + SumSizes(Tail(tbl))

\* C1: FixedPool - in every reachable state the number of blocks with
\* allocated = true plus remaining_blocks equals total_blocks.
C1_FixedAccounting ==
    AllocatedCount(f_block_table) + f_remaining_no_of_blocks
        = f_total_no_of_blocks

\* A successful free has happened and blocks are still allocated.
C1_Witness ==
    /\ f_call.op = "free"
    /\ f_ret.value
    /\ AllocatedCount(f_block_table) > 0
    /\ f_remaining_no_of_blocks > 0

\* C2: VariablePool - in every reachable state, also after an allocate that
\* failed part-way, the sizes of the chunks present plus remaining_capacity
\* equal total_capacity.
C2_VarAccounting ==
    SumSizes(v_block_table) + v_remaining_size = v_size

\* An allocate raised after an earlier menu entry had already been granted.
C2_Witness ==
    /\ v_call.op = "allocate"
    /\ v_ret.exc = "TypeError"
    /\ Len(v_block_table) > Len(v_pre.tbl)

\* C3: every public operation returns a value and never raises; in
\* particular VariablePool.allocate never ends in an exception.
C3_NeverRaises == v_ret.exc = "none"

\* C4: FixedPool.free(block_id, owner) with block_id in 0..total_blocks-1
\* returns true iff that block is allocated and owned by owner; on true
\* exactly that block is cleared and remaining_blocks grows by 1, on false
\* nothing changes.
C4_FixedFree ==
    (f_call.op = "free" /\ f_call.block_id \in 0..(f_total_no_of_blocks - 1)) =>
        LET i  == f_call.block_id + 1
            ok == f_pre.tbl[i].allocated /\ f_pre.tbl[i].owner = f_call.owner
        IN  /\ f_ret.exc = "none"
            /\ f_ret.value = ok
            /\ ok => /\ f_block_table =
                          [f_pre.tbl EXCEPT ![i] = FreedBlock(f_call.block_id)]
                     /\ f_remaining_no_of_blocks = f_pre.remaining + 1
            /\ ~ok => /\ f_block_table = f_pre.tbl
                      /\ f_remaining_no_of_blocks = f_pre.remaining

\* A free in range was refused because the block belongs to the other owner.
C4_Witness ==
    /\ f_call.op = "free"
    /\ f_call.block_id \in 0..(f_total_no_of_blocks - 1)
    /\ f_pre.tbl[f_call.block_id + 1].allocated
    /\ f_pre.tbl[f_call.block_id + 1].owner # f_call.owner
    /\ ~f_ret.value

\* C5: VariablePool.free(chunk_id, owner) returns true iff a chunk with that
\* id and that owner is present; on true exactly that chunk is removed and
\* remaining_capacity grows by its size, on false nothing changes.
C5_VarFree ==
    (v_call.op = "free") =>
        LET hits == {i \in 1..Len(v_pre.tbl) :
                        /\ v_pre.tbl[i].id = v_call.block_id
                        /\ v_pre.tbl[i].owner = v_call.owner}
        IN  /\ v_ret.exc = "none"
            /\ v_ret.value = (hits # {})
            /\ (hits # {}) =>
                  \E i \in hits :
                      /\ v_block_table =
                            [k \in 1..(Len(v_pre.tbl) - 1) |->
                                IF k < i THEN v_pre.tbl[k] ELSE v_pre.tbl[k + 1]]
                      /\ Len(v_block_table) = Len(v_pre.tbl) - 1
                      /\ v_remaining_size = v_pre.remaining + v_pre.tbl[i].size
            /\ (hits = {}) => /\ v_block_table = v_pre.tbl
                              /\ v_remaining_size = v_pre.remaining

\* A free was refused for a chunk that is present but owned by another, with
\* a second chunk in the table.
C5_Witness ==
    /\ v_call.op = "free"
    /\ ~v_ret.value
    /\ Len(v_pre.tbl) >= 2
    /\ \E i \in 1..Len(v_pre.tbl) :
           v_pre.tbl[i].id = v_call.block_id /\ v_pre.tbl[i].owner # v_call.owner

\* C6: FixedPool - a block allocated to owner A changes only in a free or
\* free_all call made with owner A; no call made with another owner changes
\* its allocated flag or owner.
C6_OwnerExclusive ==
    \A i \in 1..Len(f_pre.tbl) :
        (f_pre.tbl[i].allocated /\ f_block_table[i] # f_pre.tbl[i]) =>
            /\ f_call.op \in {"free", "free_all"}
            /\ f_call.owner = f_pre.tbl[i].owner

\* An allocate by one owner claimed a block while the other owner held one.
C6_Witness ==
    /\ f_call.op = "allocate"
    /\ f_ret.value
    /\ f_block_table # f_pre.tbl
    /\ \E i \in 1..Len(f_pre.tbl) :
           f_pre.tbl[i].allocated /\ f_pre.tbl[i].owner # f_call.owner

\* C7: FixedPool.allocate(size, owner) returns false exactly when
\* size > total_size, remaining_blocks = 0, or remaining_blocks <
\* floor(size / block_size); on false nothing changes; otherwise it returns
\* true.
C7_AllocateRejects ==
    (f_call.op = "allocate") =>
        LET rejected == \/ f_call.size > f_size
                        \/ f_pre.remaining = 0
                        \/ f_pre.remaining < f_call.size \div f_block_size
        IN  /\ f_ret.exc = "none"
            /\ f_ret.value = ~rejected
            /\ ~f_ret.value => /\ f_block_table = f_pre.tbl
                               /\ f_remaining_no_of_blocks = f_pre.remaining

\* An allocate within the pool size was refused for lack of free blocks,
\* with some block still free.
C7_Witness ==
    /\ f_call.op = "allocate"
    /\ ~f_ret.value
    /\ f_call.size <= f_size
    /\ f_pre.remaining > 0

\* C8: FixedPool.allocate(size, owner) with 0 <= size < block_size allocates
\* nothing and returns true: no block changes and remaining_blocks stays.
C8_ZeroBlocks ==
    (f_call.op = "allocate" /\ 0 <= f_call.size /\ f_call.size < f_block_size) =>
        /\ f_ret.exc = "none"
        /\ f_ret.value
        /\ f_block_table = f_pre.tbl
        /\ f_remaining_no_of_blocks = f_pre.remaining

\* C9: FixedPool.free(block_id, owner) with block_id outside
\* 0..total_blocks-1, negative or too large, returns false and changes
\* nothing.
C9_FreeOutOfRange ==
    (f_call.op = "free" /\ f_call.block_id \notin 0..(f_total_no_of_blocks - 1)) =>
        /\ f_ret.exc = "none"
        /\ ~f_ret.value
        /\ f_block_table = f_pre.tbl
        /\ f_remaining_no_of_blocks = f_pre.remaining

\* C10: FixedPool.free_all(owner) frees every block of owner, grows
\* remaining_blocks by their number, leaves all other blocks unchanged and
\* returns true, also when the owner holds no block.
C10_FreeAll ==
    (f_call.op = "free_all") =>
        LET mine == {i \in 1..Len(f_pre.tbl) : f_pre.tbl[i].owner = f_call.owner}
        IN  /\ f_ret.exc = "none"
            /\ f_ret.value
            /\ \A i \in 1..Len(f_block_table) :
                   /\ f_block_table[i].owner # f_call.owner
                   /\ f_block_table[i] =
                          IF i \in mine THEN FreedBlock(i - 1) ELSE f_pre.tbl[i]
            /\ Len(f_block_table) = Len(f_pre.tbl)
            /\ f_remaining_no_of_blocks = f_pre.remaining + Cardinality(mine)

\* A free_all released two blocks of its owner, one on each side of a block
\* of the other owner, which stays.
C10_Witness ==
    /\ f_call.op = "free_all"
    /\ f_ret.value
    /\ \E i, j, k \in 1..Len(f_pre.tbl) :
           /\ i < j /\ j < k
           /\ f_pre.tbl[i].owner = f_call.owner
           /\ f_pre.tbl[k].owner = f_call.owner
           /\ f_pre.tbl[j].allocated
           /\ f_pre.tbl[j].owner # f_call.owner
           /\ f_block_table[j].allocated

\* The chunks of tbl that owner does not own, in table order.
RECURSIVE NotOwnedBy(_, _)
NotOwnedBy(tbl, owner) ==
    IF tbl = <<>> THEN <<>>
    ELSE (IF Head(tbl).owner # owner THEN <<Head(tbl)>> ELSE <<>>)
         \o NotOwnedBy(Tail(tbl), owner)

\* C11: VariablePool.free_all(owner) removes every chunk of owner and no
\* other chunk, grows remaining_capacity by the sizes removed and returns
\* true, also when the owner holds no chunk.
C11_VarFreeAll ==
    (v_call.op = "free_all") =>
        /\ v_ret.exc = "none"
        /\ v_ret.value
        /\ v_block_table = NotOwnedBy(v_pre.tbl, v_call.owner)
        /\ v_remaining_size =
               v_pre.remaining + SumSizes(v_pre.tbl)
                   - SumSizes(NotOwnedBy(v_pre.tbl, v_call.owner))

\* A free_all removed two chunks of its owner and left a chunk of the other
\* owner in place.
C11_Witness ==
    /\ v_call.op = "free_all"
    /\ v_ret.value
    /\ Len(v_pre.tbl) = 3
    /\ Len(v_block_table) = 1

\* C14: VariablePool.allocate_single_size(size, owner, block_size) returns
\* failure when size > total_size, block_size is not in allowed_sizes,
\* remaining_capacity = 0 or remaining_capacity < size; then no chunk is
\* created and remaining_capacity is unchanged.
C14_SingleRejects ==
    (/\ v_call.op = "allocate_single_block_size"
     /\ \/ v_call.size > v_size
        \/ \A k \in 1..Len(v_block_sizes) : v_block_sizes[k] # v_call.block_size
        \/ v_pre.remaining = 0
        \/ v_pre.remaining < v_call.size) =>
        /\ v_ret.exc = "none"
        /\ v_ret.kind = "bool"
        /\ ~v_ret.value
        /\ v_block_table = v_pre.tbl
        /\ v_remaining_size = v_pre.remaining

\* A request that fits the free space was refused only because its block
\* size is not on the menu.
C14_Witness ==
    /\ v_call.op = "allocate_single_block_size"
    /\ ~v_ret.value
    /\ v_call.size >= v_call.block_size
    /\ v_call.size <= v_pre.remaining
    /\ \A k \in 1..Len(v_block_sizes) : v_block_sizes[k] # v_call.block_size

\* C16: FixedPool first-fit - a successful allocate with
\* k = floor(size / block_size) >= 1 claims exactly the k lowest-indexed
\* blocks that were free, marks each allocated with the caller as owner,
\* lowers remaining_blocks by k and changes no other block.
C16_FirstFit ==
    (/\ f_call.op = "allocate"
     /\ f_ret.value
     /\ f_call.size \div f_block_size >= 1) =>
        LET k      == f_call.size \div f_block_size
            free   == {i \in 1..Len(f_pre.tbl) : ~f_pre.tbl[i].allocated}
            lowest == {i \in free : Cardinality({j \in free : j < i}) < k}
        IN  /\ Cardinality(lowest) = k
            /\ Len(f_block_table) = Len(f_pre.tbl)
            /\ \A i \in 1..Len(f_block_table) :
                   f_block_table[i] =
                       IF i \in lowest
                       THEN [allocated |-> TRUE, id |-> i - 1,
                             owner |-> f_call.owner]
                       ELSE f_pre.tbl[i]
            /\ f_remaining_no_of_blocks = f_pre.remaining - k

\* An allocate of two blocks skipped an allocated block between two free
\* ones and left a higher free block alone.
C16_Witness ==
    /\ f_call.op = "allocate"
    /\ f_ret.value
    /\ f_call.size \div f_block_size = 2
    /\ Len(f_pre.tbl) = 4
    /\ ~f_pre.tbl[1].allocated
    /\ f_pre.tbl[2].allocated
    /\ ~f_pre.tbl[3].allocated
    /\ ~f_pre.tbl[4].allocated
    /\ ~f_block_table[4].allocated

\* C12: FixedPool round trip - a successful allocate followed by
\* free(id, owner) of each block it claimed brings back the pool as it was
\* before the allocate: the same remaining_blocks and, at every index, the
\* same allocated flag and owner.  Each of those frees succeeds.
C12_FixedRoundTrip ==
    /\ (f_rt.active /\ f_call.op = "free") => f_ret.value
    /\ (f_rt.active /\ f_rt.pending = {}) =>
           /\ f_block_table = f_rt.tbl
           /\ f_remaining_no_of_blocks = f_rt.remaining

\* The last of two blocks claimed by one allocate has been freed, in a pool
\* where another block was allocated before.
C12_Witness ==
    /\ f_rt.active
    /\ f_rt.pending = {}
    /\ f_call.op = "free"
    /\ Cardinality(f_rt.claimed) = 2
    /\ AllocatedCount(f_rt.tbl) >= 1

\* C13: VariablePool round trip - an allocate that returns a list, followed
\* by free(chunk.id, owner) of every returned chunk, succeeds on each free
\* and brings back the pool as it was: the same remaining_capacity and the
\* same chunks in the same order.
C13_VarRoundTrip ==
    /\ (v_rt.active /\ v_call.op = "free") => v_ret.value
    /\ (v_rt.active /\ v_rt.pending = {}) =>
           /\ v_block_table = v_rt.tbl
           /\ v_remaining_size = v_rt.remaining

\* The last of two chunks returned by one allocate has been freed, in a pool
\* that held another chunk before.
C13_Witness ==
    /\ v_rt.active
    /\ v_rt.pending = {}
    /\ v_call.op = "free"
    /\ Cardinality(v_rt.claimed) = 2
    /\ Len(v_rt.tbl) >= 1

\* C15: an allocate_single_size(size, owner, block_size) that passes its
\* checks creates exactly floor(size / block_size) chunks of size
\* block_size, owned by owner, allocated, each with an id issued only once;
\* remaining_capacity drops by floor(size / block_size) * block_size; the
\* call returns exactly those chunks and the chunks present before stay.
C15_SingleGrants ==
    (/\ v_call.op = "allocate_single_block_size"
     /\ v_call.size <= v_size
     /\ \E k \in 1..Len(v_block_sizes) : v_block_sizes[k] = v_call.block_size
     /\ v_pre.remaining # 0
     /\ v_pre.remaining >= v_call.size) =>
        LET n == v_call.size \div v_call.block_size
        IN  /\ v_ret.exc = "none"
            /\ v_ret.kind = "list"
            /\ Len(v_ret.chunks) = n
            /\ \A i \in 1..Len(v_ret.chunks) :
                   /\ v_ret.chunks[i].size = v_call.block_size
                   /\ v_ret.chunks[i].owner = v_call.owner
                   /\ v_ret.chunks[i].allocated
                   /\ Cardinality({j \in 1..Len(v_issued) :
                                      v_issued[j] = v_ret.chunks[i].id}) = 1
            /\ v_block_table = v_pre.tbl \o v_ret.chunks
            /\ v_remaining_size = v_pre.remaining - n * v_call.block_size

\* A request of 3 with block size 2 was granted as one chunk, after an
\* earlier chunk had been issued and freed.
C15_Witness ==
    /\ v_call.op = "allocate_single_block_size"
    /\ v_ret.kind = "list"
    /\ v_call.size = 3
    /\ v_call.block_size = 2
    /\ Len(v_ret.chunks) = 1
    /\ Len(v_issued) > Len(v_block_table)

LastEntry(menu) == menu[Len(menu)]

\* The chunks the latest call appended to the table.
Appended == SubSeq(v_block_table, Len(v_pre.tbl) + 1, Len(v_block_table))

\* C17: VariablePool.allocate smallest fallback - for any stored menu, a
\* request that is positive and less than the last menu entry, with enough
\* remaining capacity, is granted as exactly one chunk of the size of the
\* last menu entry and no chunk of any other size.
C17_Fallback ==
    (/\ v_call.op = "allocate"
     /\ 0 < v_call.size
     /\ v_call.size < LastEntry(v_block_sizes)
     /\ v_pre.remaining >= LastEntry(v_block_sizes)) =>
        /\ v_ret.exc = "none"
        /\ Len(v_ret.chunks) = 1
        /\ v_ret.chunks[1].size = LastEntry(v_block_sizes)
        /\ v_block_table = v_pre.tbl \o v_ret.chunks

\* C18: VariablePool.allocate is greedy in stored menu order - with
\* capacity for the request and a request of at least the last menu entry,
\* the first floor(size / s0) chunks it creates have the size s0 of the
\* first stored entry, largest or not; a request of exactly k * s0 returns
\* exactly k chunks, all of size s0.
C18_StoredOrder ==
    (/\ v_call.op = "allocate"
     /\ v_call.size >= LastEntry(v_block_sizes)
     /\ v_pre.remaining >= v_call.size) =>
        LET s0 == v_block_sizes[1]
            n  == v_call.size \div s0
        IN  /\ SubSeq(v_block_table, 1, Len(v_pre.tbl)) = v_pre.tbl
            /\ Len(Appended) >= n
            /\ \A i \in 1..n : /\ Appended[i].size = s0
                               /\ Appended[i].owner = v_call.owner
            /\ (v_call.size % s0 = 0) =>
                   /\ v_ret.exc = "none"
                   /\ v_ret.chunks = Appended
                   /\ Len(v_ret.chunks) = n

\* A request of 3 on a menu whose first entry, 1, is its smallest returned
\* three chunks of 1.
C18_Witness ==
    /\ v_call.op = "allocate"
    /\ v_ret.exc = "none"
    /\ v_block_sizes[1] < LastEntry(v_block_sizes)
    /\ v_call.size = 3 * v_block_sizes[1]
    /\ Len(v_ret.chunks) = 3

\* C19: VariablePool.allocate is all-or-nothing - when a step of the
\* decomposition is refused and the call does not complete normally, no
\* chunk of an earlier step remains and remaining_capacity is what it was.
C19_AllOrNothing ==
    (v_call.op = "allocate" /\ v_ret.exc # "none") =>
        /\ v_block_table = v_pre.tbl
        /\ v_remaining_size = v_pre.remaining

Descending(menu) == \A k \in 1..(Len(menu) - 1) : menu[k] > menu[k + 1]

\* C20: VariablePool.allocate covers the request - for a menu stored in
\* descending order and size > 0, when allocate returns a list the sizes of
\* the returned chunks add up to at least size and to less than size plus
\* the smallest menu entry.
C20_Covers ==
    (/\ v_call.op = "allocate"
     /\ v_ret.exc = "none"
     /\ v_call.size > 0
     /\ Descending(v_block_sizes)) =>
        /\ SumSizes(v_ret.chunks) >= v_call.size
        /\ SumSizes(v_ret.chunks) < v_call.size + LastEntry(v_block_sizes)

\* C21: VariablePool never over-commits - in every reachable state
\* 0 <= remaining_capacity <= total_capacity and the chunk sizes add up to
\* at most total_capacity, also after the fallback path of allocate, which
\* requests the last menu entry instead of the caller's size.
C21_NeverOverCommits ==
    /\ 0 <= v_remaining_size
    /\ v_remaining_size <= v_size
    /\ SumSizes(v_block_table) <= v_size

\* An allocate took the fallback path for a request below the last menu
\* entry, granted chunks, and left the pool full.
C21_Witness ==
    /\ v_call.op = "allocate"
    /\ v_ret.exc = "none"
    /\ 0 < v_call.size
    /\ v_call.size < LastEntry(v_block_sizes)
    /\ Len(v_ret.chunks) >= 1
    /\ Len(v_pre.tbl) >= 1
    /\ v_remaining_size = 0

\* C22: FixedPool block consistency - for string owners, in every reachable
\* state each block has allocated = TRUE exactly when its owner field is set,
\* and each block's id equals its position in the table; hence the blocks
\* free_all selects by owner alone were all allocated when it was called.
C22_BlockConsistency ==
    /\ \A i \in 1..Len(f_block_table) :
          /\ f_block_table[i].allocated <=> (f_block_table[i].owner # None)
          /\ f_block_table[i].id = i - 1
    /\ f_call.op = "free_all" =>
          \A i \in 1..Len(f_pre.tbl) :
              FreeAllSelects(f_pre.tbl[i], f_call.owner) => f_pre.tbl[i].allocated

\* free_all released blocks of its owner from a table that also held freed
\* blocks and blocks of another owner, which stay allocated.
C22_Witness ==
    /\ f_call.op = "free_all"
    /\ \E i \in 1..Len(f_pre.tbl) :
          /\ f_pre.tbl[i].owner = f_call.owner
          /\ f_block_table[i].allocated = FALSE
          /\ f_block_table[i].owner = None
    /\ \E j \in 1..Len(f_pre.tbl) : f_pre.tbl[j].allocated = FALSE
    /\ \E k \in 1..Len(f_block_table) :
          /\ f_block_table[k].allocated
          /\ f_block_table[k].owner \notin {None, f_call.owner}

====
